---- MODULE Spec2Model ----
(***************************************************************************)
(* RAG pipeline of the synai platform backend: document indexing           *)
(* (VectorService.process_document), the three-stage search cascade        *)
(* (VectorService.search) and the request handlers that drive them         *)
(* (/files/upload, DELETE /files/{id}, /llm/chat, /llm/chat-with-file).    *)
(*                                                                         *)
(* Text is a sequence of one-character strings.  Distances are integers    *)
(* in thousandths (1800 stands for 1.8).  The ChromaDB collection is a     *)
(* sequence of records in insertion order; `add` ignores ids that already  *)
(* exist and rejects an empty batch, `get(limit=k)` returns the first k    *)
(* matching records, `query` returns the n nearest matching records.       *)
(***************************************************************************)
EXTENDS Integers, Sequences, FiniteSets, TLC

VARIABLES
    files,         \* the File table
    store,         \* the index store: collection name -> records in insertion order
    resp,          \* the outcome of the last request or service call
    call,          \* the arguments of the service call under study (NoCall in platform runs)
    hasPythainlp   \* HAS_PYTHAINLP: whether the import of pythainlp succeeded

vars == <<files, store, resp, call, hasPythainlp>>

----------------------------------------------------------------------------
(* Bounds of the model *)

MaxFiles == 2
MaxCalls == 2

----------------------------------------------------------------------------
(* Generic helpers on sequences *)

None == "None"
\* None where the other values are sequences (a label, a vector id, a user id)
NoneSeq == <<>>
\* None where the other values are page numbers (None and 0 are both falsy)
NonePage == 0

Min(a, b) == IF a < b THEN a ELSE b
Max(a, b) == IF a > b THEN a ELSE b

Range(s) == {s[i] : i \in 1..Len(s)}

RECURSIVE SeqFilter(_, _)
SeqFilter(s, keep) ==
    IF s = <<>> THEN <<>>
    ELSE IF keep[Head(s)] THEN <<Head(s)>> \o SeqFilter(Tail(s), keep)
         ELSE SeqFilter(Tail(s), keep)

Take(s, n) == SubSeq(s, 1, Min(n, Len(s)))

RECURSIVE Flatten(_)
Flatten(ss) == IF ss = <<>> THEN <<>> ELSE Head(ss) \o Flatten(Tail(ss))

\* Python slice text[a:b] with 0 <= a, on 0-based offsets
Slice(text, a, b) == SubSeq(text, a + 1, Min(b, Len(text)))

----------------------------------------------------------------------------
(* Python string primitives used by the services *)

Whitespace == {" ", "\n"}
\* "TH" stands for one character of the Thai block U+0E00..U+0E7F
ThaiChars  == {"TH"}

\* str.lower() on the characters of the model's alphabet
LowerChar(c) ==
    CASE c = "O" -> "o"
      [] c = "F" -> "f"
      [] OTHER   -> c

Lower(text) == [i \in 1..Len(text) |-> LowerChar(text[i])]

\* str.split(): the maximal runs of non-whitespace characters
RECURSIVE SplitFrom(_, _, _)
SplitFrom(text, i, cur) ==
    IF i > Len(text)
    THEN (IF cur = <<>> THEN <<>> ELSE <<cur>>)
    ELSE IF text[i] \in Whitespace
         THEN (IF cur = <<>> THEN <<>> ELSE <<cur>>) \o SplitFrom(text, i + 1, <<>>)
         ELSE SplitFrom(text, i + 1, Append(cur, text[i]))

Split(text) == SplitFrom(text, 1, <<>>)

\* " ".join(words)
RECURSIVE Join(_)
Join(words) ==
    IF words = <<>> THEN <<>>
    ELSE IF Len(words) = 1 THEN Head(words)
    ELSE Head(words) \o <<" ">> \o Join(Tail(words))

\* str.strip()
RECURSIVE LStrip(_)
LStrip(text) ==
    IF text # <<>> /\ Head(text) \in Whitespace THEN LStrip(Tail(text)) ELSE text

RECURSIVE RStrip(_)
RStrip(text) ==
    IF text # <<>> /\ text[Len(text)] \in Whitespace
    THEN RStrip(SubSeq(text, 1, Len(text) - 1)) ELSE text

Strip(text) == RStrip(LStrip(text))

\* `needle in hay` on strings
Contains(hay, needle) ==
    \E i \in 0..(Len(hay) - Len(needle)) :
        SubSeq(hay, i + 1, i + Len(needle)) = needle

\* text.rfind(" ", start, end): the highest 0-based offset in [start, end) holding a space, or -1
RFindSpace(text, start, end) ==
    LET hits == {i \in start..(Min(end, Len(text)) - 1) : text[i + 1] = " "}
    IN IF hits = {} THEN -1 ELSE CHOOSE i \in hits : \A j \in hits : j <= i

----------------------------------------------------------------------------
(* Users, uploaded contents and queries the model draws its inputs from *)

\* str(current_user.id): UUID strings, i.e. hex digits and hyphens
Users == { <<"a", "-", "1">>, <<"a", "-", "2">> }

FileIds == 1..MaxFiles

T_owl == <<"O", "w", "l", " ", "n", "e", "s", "t">>
T_fox == <<"r", "e", "d", " ", "F", "o", "x">>
T_blank == <<" ", "\n">>

\* The 51-page document: more pages than the Stage 2 pool holds
BigPages == [i \in 1..51 |-> IF i = 51 THEN T_owl ELSE T_fox]

\* The six-page report: more pages than the smallest search budget
ReportPages == <<T_owl, T_fox, T_fox, T_owl, T_fox, T_owl>>

\* What an uploaded file holds on disk: its extension, declared mime type,
\* whether a reader can open it, whether its first KB holds a NUL byte, and
\* the raw text of its pages (one entry for unpaged formats)
Catalog ==
    [ txt |-> [ext |-> "txt",  mime |-> "text/plain",      readable |-> TRUE,  nul |-> FALSE, pages |-> <<T_owl>>],
      pdf |-> [ext |-> "pdf",  mime |-> "application/pdf", readable |-> TRUE,  nul |-> FALSE, pages |-> <<T_fox, T_blank, T_owl>>],
      big |-> [ext |-> "pdf",  mime |-> "application/pdf", readable |-> TRUE,  nul |-> FALSE, pages |-> BigPages],
      bin |-> [ext |-> "txt",  mime |-> "text/plain",      readable |-> TRUE,  nul |-> TRUE,  pages |-> <<T_fox>>],
      bad |-> [ext |-> "pdf",  mime |-> "application/pdf", readable |-> FALSE, nul |-> FALSE, pages |-> <<>>],
      rpt |-> [ext |-> "pdf",  mime |-> "application/pdf", readable |-> TRUE,  nul |-> FALSE, pages |-> ReportPages],
      doc |-> [ext |-> "docx", mime |-> "application/vnd.openxmlformats-officedocument.wordprocessingml.document",
                                                           readable |-> FALSE, nul |-> FALSE, pages |-> <<>>],
      png |-> [ext |-> "png",  mime |-> "image/png",       readable |-> TRUE,  nul |-> TRUE,  pages |-> <<>>] ]

Kinds == DOMAIN Catalog

Q_empty == <<>>
Q_owl   == <<"o", "w", "l">>
Q_ox    == <<"o", "x">>
Q_elk   == <<"e", "l", "k">>
Queries == {Q_empty, Q_owl, Q_ox, Q_elk}

\* Distances the store can report, in thousandths
DistSet == {300, 1900, 3000}

----------------------------------------------------------------------------
(* VectorService: extraction *)

\* _extract_pdf_pages: one unit per page whose text is not blank, [] on a reader error
ExtractPdfPages(f) ==
    IF ~f.readable THEN <<>>
    ELSE LET units == [i \in 1..Len(f.pages) |->
                         [text |-> f.pages[i], page |-> i, page_label |-> <<"Page", i>>]]
             keep  == [u \in Range(units) |-> u.text # <<>> /\ Strip(u.text) # <<>>]
         IN SeqFilter(units, keep)

\* _extract_docx: the paragraphs' text, "" on a reader error
ExtractDocx(f) ==
    IF ~f.readable THEN <<>>
    ELSE Flatten([i \in 1..Len(f.pages) |-> f.pages[i] \o <<"\n">>])

\* _extract_with_metadata: the units of a file by its extension
ExtractWithMetadata(f) ==
    CASE f.ext = "pdf"  -> ExtractPdfPages(f)
      [] f.ext = "docx" -> << [text |-> ExtractDocx(f), page |-> NonePage, page_label |-> NoneSeq] >>
      [] OTHER ->
           IF ~f.readable \/ f.nul THEN <<>>
           ELSE << [text |-> Flatten(f.pages), page |-> NonePage, page_label |-> NoneSeq] >>

----------------------------------------------------------------------------
(* VectorService: chunking *)

ChunkSize == 600
Overlap   == 120

HasThai(text) == \E i \in 1..Len(text) : text[i] \in ThaiChars

\* The Thai branch: pack whole sentences greedily
RECURSIVE ThaiPack(_, _, _)
ThaiPack(sentences, current, chunk_size) ==
    IF sentences = <<>>
    THEN (IF current # <<>> THEN <<Strip(current)>> ELSE <<>>)
    ELSE LET sent == Head(sentences) IN
         IF Len(current) + Len(sent) <= chunk_size
         THEN ThaiPack(Tail(sentences), current \o sent \o <<" ">>, chunk_size)
         ELSE (IF current # <<>> THEN <<Strip(current)>> ELSE <<>>)
              \o ThaiPack(Tail(sentences), sent \o <<" ">>, chunk_size)

\* The default branch: the sliding window over the whitespace-normalised text
RECURSIVE SplitLoop(_, _, _, _)
SplitLoop(text, start, chunk_size, overlap) ==
    IF ~(start < Len(text)) THEN <<>>
    ELSE LET end0       == start + chunk_size
             last_space == RFindSpace(text, start, end0)
             end        == IF end0 < Len(text) /\ last_space # -1
                              /\ last_space > start + (chunk_size \div 2)
                           THEN last_space ELSE end0
             chunk      == Slice(text, start, end)
         IN (IF Strip(chunk) # <<>> THEN <<chunk>> ELSE <<>>)
            \o SplitLoop(text, end - overlap, chunk_size, overlap)

\* The default branch: the values `start` takes at the head of the loop body
RECURSIVE WindowStarts(_, _, _, _)
WindowStarts(text, start, chunk_size, overlap) ==
    IF ~(start < Len(text)) THEN <<>>
    ELSE LET end0       == start + chunk_size
             last_space == RFindSpace(text, start, end0)
             end        == IF end0 < Len(text) /\ last_space # -1
                              /\ last_space > start + (chunk_size \div 2)
                           THEN last_space ELSE end0
         IN <<start>> \o WindowStarts(text, end - overlap, chunk_size, overlap)

\* _split_text whose window is one character wider than chunk_size
SplitTextWide(text, chunk_size, overlap) ==
    IF text = <<>> THEN <<>>
    ELSE IF HasThai(text) /\ hasPythainlp
         THEN ThaiPack(Split(text), <<>>, chunk_size + 1)
         ELSE SplitLoop(Join(Split(text)), 0, chunk_size + 1, overlap)

\* _split_text(text, chunk_size, overlap)
SplitText(text, chunk_size, overlap) ==
    IF text = <<>> THEN <<>>
    ELSE IF HasThai(text) /\ hasPythainlp
         THEN ThaiPack(Split(text), <<>>, chunk_size)
         ELSE SplitLoop(Join(Split(text)), 0, chunk_size, overlap)


----------------------------------------------------------------------------
(* The index store (ChromaDB), as the services use it *)

\* How a request finds the store: reachable, no client (get_client returns
\* None), or a client whose calls raise
Avail == {"ok", "no_client", "store_error"}

\* user_id.replace('-', '_')
ReplaceHyphen(user_id) ==
    [i \in 1..Len(user_id) |-> IF user_id[i] = "-" THEN "_" ELSE user_id[i]]

\* One collection name for every user
CollectionNameShared(user_id) == <<"u", "s", "e", "r", "_">>

\* f"user_{user_id.replace('-', '_')}"
CollectionName(user_id) == <<"u", "s", "e", "r", "_">> \o ReplaceHyphen(user_id)

\* The records of file id in the collection of user u
ChunksIn(st, u, id) ==
    IF CollectionName(u) \in DOMAIN st
    THEN SeqFilter(st[CollectionName(u)],
                   [r \in Range(st[CollectionName(u)]) |-> r.metadata.file_id = id])
    ELSE <<>>

\* where={"file_id": x} / where={"file_id": {"$in": xs}} / where=None
Matches(rec, file_ids) ==
    file_ids = <<>> \/ rec.metadata.file_id \in Range(file_ids)

\* collection.get(where=..., limit=k): the first k matching records
CollectionGet(coll, file_ids, limit) ==
    Take(SeqFilter(coll, [r \in Range(coll) |-> Matches(r, file_ids)]), limit)

\* collection.add(documents, ids, metadatas): records whose id is already
\* stored are ignored
CollectionAdd(coll, recs) ==
    LET have == {coll[i].id : i \in 1..Len(coll)}
    IN coll \o SeqFilter(recs, [r \in Range(recs) |-> r.id \notin have])

\* A delete that empties the collection
CollectionDeleteAll(coll, file_id) == <<>>

\* collection.delete(where={"file_id": file_id})
CollectionDelete(coll, file_id) ==
    SeqFilter(coll, [r \in Range(coll) |-> r.metadata.file_id # file_id])

----------------------------------------------------------------------------
(* VectorService.process_document *)

\* The page label of a unit's chunks
PageOf(obj) ==
    IF obj.page_label # NoneSeq THEN obj.page_label
    ELSE IF obj.page # NonePage THEN <<"Page", obj.page>> ELSE <<"General">>

\* The chunks of all units in emission order, each with its unit
RECURSIVE ChunksOf(_)
ChunksOf(content_objects) ==
    IF content_objects = <<>> THEN <<>>
    ELSE LET obj == Head(content_objects)
             sub == SplitText(obj.text, ChunkSize, Overlap)
         IN [i \in 1..Len(sub) |-> [chunk |-> sub[i], obj |-> obj]]
            \o ChunksOf(Tail(content_objects))

\* f"{file_id}_chunk_{i}"
ChunkId(file_id, i) == <<file_id, "_chunk_", i>>

\* The records with chunk_index counted within each unit
ChunkRecordsPerUnit(content_objects, file_id, user_id) ==
    LET cs == ChunksOf(content_objects)
    IN [k \in 1..Len(cs) |->
          [id       |-> ChunkId(file_id, k - 1),
           document |-> cs[k].chunk,
           metadata |-> [file_id     |-> file_id,
                         page        |-> PageOf(cs[k].obj),
                         user_id     |-> user_id,
                         chunk_index |-> Cardinality({j \in 1..(k - 1) :
                                                         cs[j].obj = cs[k].obj})]]]

\* The records process_document hands to collection.add
ChunkRecords(content_objects, file_id, user_id) ==
    LET cs == ChunksOf(content_objects)
    IN [k \in 1..Len(cs) |->
          [id       |-> ChunkId(file_id, k - 1),
           document |-> cs[k].chunk,
           metadata |-> [file_id     |-> file_id,
                         page        |-> PageOf(cs[k].obj),
                         user_id     |-> user_id,
                         chunk_index |-> k - 1]]]

\* process_document numbering its chunk ids from the size of the collection
ProcessDocumentFreshIds(st, f, file_id, user_id, avail) ==
    LET content_objects == ExtractWithMetadata(f)
        name == CollectionName(user_id)
        recs == ChunkRecords(content_objects, file_id, user_id)
        created == IF name \in DOMAIN st THEN st ELSE (name :> <<>>) @@ st
        fresh == [k \in 1..Len(recs) |->
                    [recs[k] EXCEPT !.id = ChunkId(file_id, Len(created[name]) + k - 1)]]
    IN IF avail = "no_client"
       THEN [raised |-> TRUE, vid |-> NoneSeq, store |-> st]
       ELSE IF content_objects = <<>>
       THEN [raised |-> FALSE, vid |-> NoneSeq, store |-> st]
       ELSE IF avail = "store_error"
       THEN [raised |-> TRUE, vid |-> NoneSeq, store |-> st]
       ELSE IF recs = <<>>
       THEN [raised |-> TRUE, vid |-> NoneSeq, store |-> created]
       ELSE [raised |-> FALSE, vid |-> <<name, file_id>>,
             store |-> [created EXCEPT ![name] = CollectionAdd(created[name], fresh)]]

\* process_document(file_path, file_id, user_id) against store st:
\* raised = it threw, vid = its return value, store = the store afterwards
ProcessDocument(st, f, file_id, user_id, avail) ==
    LET content_objects == ExtractWithMetadata(f)
        name == CollectionName(user_id)
        recs == ChunkRecords(content_objects, file_id, user_id)
        created == IF name \in DOMAIN st THEN st ELSE (name :> <<>>) @@ st
    IN IF avail = "no_client"
       THEN [raised |-> TRUE, vid |-> NoneSeq, store |-> st]
       ELSE IF content_objects = <<>>
       THEN [raised |-> FALSE, vid |-> NoneSeq, store |-> st]
       ELSE IF avail = "store_error"
       THEN [raised |-> TRUE, vid |-> NoneSeq, store |-> st]
       ELSE IF recs = <<>>
       THEN [raised |-> TRUE, vid |-> NoneSeq, store |-> created]
       ELSE [raised |-> FALSE, vid |-> <<name, file_id>>,
             store |-> [created EXCEPT ![name] = CollectionAdd(created[name], recs)]]

\* delete_document(vector_id) against store st
DeleteDocument(st, vector_id, avail) ==
    IF vector_id = NoneSeq \/ avail # "ok" THEN st
    ELSE LET name == vector_id[1] IN
         IF name \notin DOMAIN st THEN st
         ELSE [st EXCEPT ![name] = CollectionDelete(st[name], vector_id[2])]


----------------------------------------------------------------------------
(* VectorService.search *)

\* Where a call of search can meet a failing store
SearchFails == {"none", "client", "get_collection", "query", "get2", "get3"}

RECURSIVE SortedSeq(_)
SortedSeq(S) ==
    IF S = {} THEN <<>>
    ELSE LET m == CHOOSE x \in S : \A y \in S : x <= y
         IN <<m>> \o SortedSeq(S \ {m})

\* collection.query(query_texts=[query], n_results=n, where=...): the n
\* nearest matching records, nearest first, each with its distance; dm gives
\* the distance of the query to each stored text
CollectionQuery(coll, file_ids, n, dm) ==
    LET cand   == SeqFilter(coll, [r \in Range(coll) |-> Matches(r, file_ids)])
        ds     == SortedSeq({dm[cand[i].document] : i \in 1..Len(cand)})
        ranked == Flatten([k \in 1..Len(ds) |->
                     SeqFilter(cand, [r \in Range(cand) |-> dm[r.document] = ds[k]])])
    IN Take([i \in 1..Len(ranked) |-> [rec |-> ranked[i], dist |-> dm[ranked[i].document]]], n)

\* word_tokenize(text, keep_whitespace=False) on text without Thai script
WordTokenize(text) == Split(text)

\* Stage 1.5 with pythainlp, without the floor of 0.01
ThaiBoostNoFloor(query, doc, dist) ==
    LET target_words == {w \in Range(WordTokenize(Lower(query))) : Len(w) > 1}
        doc_words    == Range(WordTokenize(Lower(doc)))
        matches      == target_words \cap doc_words
    IN IF target_words # {} /\ Cardinality(matches) > 0
       THEN dist - Min(dist, (900 * Cardinality(matches)) \div Cardinality(target_words))
       ELSE dist

\* Stage 1.5 with pythainlp: the boosted distance of one candidate
ThaiBoost(query, doc, dist) ==
    LET target_words == {w \in Range(WordTokenize(Lower(query))) : Len(w) > 1}
        doc_words    == Range(WordTokenize(Lower(doc)))
        matches      == target_words \cap doc_words
    IN IF target_words # {} /\ Cardinality(matches) > 0
       THEN LET boost == Min(dist, (900 * Cardinality(matches)) \div Cardinality(target_words))
            IN Max(10, dist - boost)
       ELSE dist

\* Stage 1.5 without pythainlp: the boosted distance of one candidate
SimpleBoost(query, doc, dist) ==
    LET words      == Split(Lower(query))
        query_words == SeqFilter(words, [w \in Range(words) |-> Len(w) > 1])
        found      == SeqFilter(query_words,
                                [w \in Range(query_words) |-> Contains(Lower(doc), w)])
    IN IF Len(found) > 0
       THEN LET boost == Min(500, (600 * Len(found)) \div Len(query_words))
            IN Max(10, dist - boost)
       ELSE dist

Rescore(query, doc, dist) ==
    IF hasPythainlp THEN ThaiBoost(query, doc, dist) ELSE SimpleBoost(query, doc, dist)

\* A search result; coll and stage are bookkeeping of the model: the
\* collection the chunk was read from and the stage that produced it
Result(rec, dist, name, stage) ==
    [content |-> rec.document, metadata |-> rec.metadata, distance |-> dist,
     coll |-> name, stage |-> stage]

\* STAGE 1: semantic search with keyword re-scoring, accepted below 1.8
Stage1(coll, name, query, n_results, file_ids, dm) ==
    LET got      == CollectionQuery(coll, file_ids, n_results, dm)
        rescored == [i \in 1..Len(got) |->
                       Result(got[i].rec, Rescore(query, got[i].rec.document, got[i].dist), name, 1)]
    IN SeqFilter(rescored, [r \in Range(rescored) |-> r.distance < 1800])

\* Stage 2 matching only query words of more than 3 characters
Stage2LongWords(coll, name, query, n_results, file_ids) ==
    LET all_chunks  == CollectionGet(coll, file_ids, 50)
        query_words == {w \in Range(Split(Lower(query))) : Len(w) > 3}
        hit         == [r \in Range(all_chunks) |->
                          \E w \in query_words : Contains(Lower(r.document), w)]
        kept        == SeqFilter(all_chunks, hit)
    IN [i \in 1..Min(Len(kept), Max(1, n_results)) |-> Result(kept[i], 400, name, 2)]

\* STAGE 2: keyword fallback over a pool of 50 chunks, distance 0.4
Stage2(coll, name, query, n_results, file_ids) ==
    LET all_chunks  == CollectionGet(coll, file_ids, 50)
        query_words == {w \in Range(Split(Lower(query))) : Len(w) > 2}
        hit         == [r \in Range(all_chunks) |->
                          \E w \in query_words : Contains(Lower(r.document), w)]
        kept        == SeqFilter(all_chunks, hit)
    IN [i \in 1..Min(Len(kept), Max(1, n_results)) |-> Result(kept[i], 400, name, 2)]

\* Stage 3 fetching nothing
Stage3NoFallback(coll, name, file_ids) == <<>>

\* STAGE 3: absolute fallback, 5 chunks at distance 0.6
Stage3(coll, name, file_ids) ==
    LET intro_chunks == CollectionGet(coll, file_ids, 5)
    IN [i \in 1..Len(intro_chunks) |-> Result(intro_chunks[i], 600, name, 3)]

\* The outcome of a call: raised = it threw, failed = a store call failed
\* inside it, docs = the list it returned
Returned(docs)      == [raised |-> FALSE, failed |-> FALSE, docs |-> docs]
\* `if client is None: return []`
NoClient            == [raised |-> FALSE, failed |-> TRUE, docs |-> <<>>]
\* get_collection raised: `return []`
NoCollection        == [raised |-> FALSE, failed |-> TRUE, docs |-> <<>>]
\* The exception leaving search
CascadeErrorReraise(docs) == [raised |-> TRUE, failed |-> TRUE, docs |-> <<>>]
\* `except Exception: return []` around the cascade
CascadeError(docs)  == [raised |-> FALSE, failed |-> TRUE, docs |-> <<>>]

\* search whose Stage 3 runs after every Stage 1
SearchAllStages(st, user_id, query, n_results, file_ids, dm, fail) ==
    LET name == CollectionName(user_id) IN
    IF fail = "client" THEN NoClient
    ELSE IF fail = "get_collection" \/ name \notin DOMAIN st THEN NoCollection
    ELSE IF fail = "query" THEN CascadeError(<<>>)
    ELSE Returned(Stage1(st[name], name, query, n_results, file_ids, dm)
                  \o Stage3(st[name], name, file_ids))

\* search(user_id, query, n_results, file_ids) against store st
Search(st, user_id, query, n_results, file_ids, dm, fail) ==
    LET name == CollectionName(user_id) IN
    IF fail = "client" THEN NoClient
    ELSE IF fail = "get_collection" \/ name \notin DOMAIN st THEN NoCollection
    ELSE IF fail = "query" THEN CascadeError(<<>>)
    ELSE
      LET coll == st[name]
          s1   == Stage1(coll, name, query, n_results, file_ids, dm)
      IN IF s1 # <<>> THEN Returned(s1)
         ELSE IF query # <<>> /\ fail = "get2" THEN CascadeError(s1)
         ELSE LET s2 == IF query # <<>>
                        THEN Stage2(coll, name, query, n_results, file_ids) ELSE <<>>
              IN IF s2 # <<>> THEN Returned(s2)
                 ELSE IF fail = "get3" THEN CascadeError(s2)
                 ELSE Returned(Stage3(coll, name, file_ids))


\* The texts a stored chunk can hold, and the distances a query can have to them
ChunkTexts == {T_owl, T_fox}
DistMaps   == [ChunkTexts -> DistSet]
FarMap     == [t \in ChunkTexts |-> 3000]

----------------------------------------------------------------------------
(* The request handlers *)

\* The File table: files[id] is the row of file id, Deleted once the row
\* has been deleted (ids are fresh UUIDs and never reused)
Deleted == [deleted |-> TRUE]

Live(fs) == {i \in 1..Len(fs) : fs[i] # Deleted}

\* files.get_file_type(mime_type)
GetFileType(mime) ==
    CASE mime = "image/png" -> "image"
      [] mime \in {"application/pdf", "text/plain",
                   "application/vnd.openxmlformats-officedocument.wordprocessingml.document"}
                -> "document"
      [] OTHER -> "other"

\* File(user_id=..., file_type=..., storage_path=...) as committed
NewFile(u, kind) ==
    [user_id |-> u, kind |-> kind, file_type |-> GetFileType(Catalog[kind].mime),
     is_processed |-> FALSE, vector_id |-> NoneSeq]

\* What the model keeps of a list of search results: for each result the
\* collection it was read from and the owner and file its metadata name
Origins(results) ==
    {[coll    |-> results[i].coll,
      user_id |-> results[i].metadata.user_id,
      file_id |-> results[i].metadata.file_id] : i \in 1..Len(results)}

\* The response of the last request: the handler, the requesting user, the
\* file the request created or deleted (0: none), how it ended ("ok", an
\* HTTP error status, or "raised_..." for an unhandled exception), the kind of
\* assistant message, the origins of the retrieved chunks, and the files
\* whose indexing threw inside the request, each with the availability of
\* the store it met
Response(op, u, target, status, content, results, indexFailed) ==
    [op |-> op, user |-> u, target |-> target, status |-> status, content |-> content,
     results |-> Origins(results), indexFailed |-> indexFailed]

\* The failure a search meets under each availability of the store
SearchFailOf(avail) ==
    CASE avail = "ok"        -> "none"
      [] avail = "no_client" -> "client"
      [] OTHER               -> "get_collection"

\* `file_record.is_processed = True; file_record.vector_id = vector_id`
MarkProcessed(row, vid) == [row EXCEPT !.is_processed = TRUE, !.vector_id = vid]

\* upload_file: the row is committed, a document is indexed at once
UploadFileOf(u, kind, avail) ==
    /\ LET id  == Len(files) + 1
           row == NewFile(u, kind)
           p   == ProcessDocument(store, Catalog[kind], id, u, avail)
       IN IF row.file_type = "document"
          THEN /\ files' = Append(files, IF p.raised THEN row ELSE MarkProcessed(row, p.vid))
               /\ store' = p.store
               /\ resp'  = Response("upload", u, id, "ok", None, <<>>,
                                    IF p.raised THEN {[id |-> id, avail |-> avail]} ELSE {})
          ELSE /\ files' = Append(files, row)
               /\ store' = store
               /\ resp'  = Response("upload", u, id, "ok", None, <<>>, {})
    /\ UNCHANGED <<call, hasPythainlp>>

\* POST /files/upload
UploadFile(u, kind, avail) ==
    /\ Len(files) < MaxFiles
    /\ UploadFileOf(u, kind, avail)

\* DELETE /files/{file_id}
DeleteFile(u, id) ==
    /\ id \in 1..Len(files)
    /\ IF id \in Live(files) /\ files[id].user_id = u
       THEN /\ files' = [files EXCEPT ![id] = Deleted]
            /\ resp'  = Response("delete", u, id, "ok", None, <<>>, {})
       ELSE /\ files' = files
            /\ resp'  = Response("delete", u, 0, "http_404", None, <<>>, {})
    /\ UNCHANGED <<store, call, hasPythainlp>>

\* The completion delegate: answers, fails, or no provider is configured
Delegates == {"ok", "fail", "no_provider"}

\* LLMService.generate_response: the content of the assistant message
GenerateResponse(delegate) == IF delegate = "ok" THEN "answer" ELSE "error"

\* The auto-index loop that ends at the first file whose indexing throws
RECURSIVE AutoIndexAbort(_, _, _, _, _)
AutoIndexAbort(ids, acc, u, avail, failed) ==
    IF ids = <<>> THEN [files |-> acc.files, store |-> acc.store, failed |-> failed]
    ELSE LET id == Head(ids)
             f  == acc.files[id]
             p  == ProcessDocument(acc.store, Catalog[f.kind], id, u, avail)
         IN IF f.is_processed
            THEN AutoIndexAbort(Tail(ids), acc, u, avail, failed)
            ELSE IF p.raised
            THEN [files |-> acc.files, store |-> p.store,
                  failed |-> failed \cup {[id |-> id, avail |-> avail]}]
            ELSE AutoIndexAbort(Tail(ids),
                                [files |-> [acc.files EXCEPT ![id] = MarkProcessed(f, p.vid)],
                                 store |-> p.store],
                                u, avail, failed)

\* /chat, "Auto-index if needed": the loop over the fetched files, in order
RECURSIVE AutoIndex(_, _, _, _, _)
AutoIndex(ids, acc, u, avail, failed) ==
    IF ids = <<>> THEN [files |-> acc.files, store |-> acc.store, failed |-> failed]
    ELSE LET id == Head(ids)
             f  == acc.files[id]
             p  == ProcessDocument(acc.store, Catalog[f.kind], id, u, avail)
         IN IF f.is_processed
            THEN AutoIndex(Tail(ids), acc, u, avail, failed)
            ELSE IF p.raised
            THEN AutoIndex(Tail(ids), [files |-> acc.files, store |-> p.store],
                           u, avail, failed \cup {[id |-> id, avail |-> avail]})
            ELSE AutoIndex(Tail(ids),
                           [files |-> [acc.files EXCEPT ![id] = MarkProcessed(f, p.vid)],
                            store |-> p.store],
                           u, avail, failed)

\* all_results.sort(key=distance): a stable sort
SortByDistance(rs) ==
    LET ds == SortedSeq({rs[i].distance : i \in 1..Len(rs)})
    IN Flatten([k \in 1..Len(ds) |->
                  SeqFilter(rs, [r \in Range(rs) |-> r.distance = ds[k]])])

\* The fan-out that keeps the top 5 of the merged results
FanOutTop5(st, u, query, file_ids_str, dm, avail) ==
    IF file_ids_str = <<>> THEN <<>>
    ELSE LET results_per_file == Max(5, 20 \div Len(file_ids_str))
             all_search_results ==
                 [k \in 1..Len(file_ids_str) |->
                     Search(st, u, query, results_per_file, <<file_ids_str[k]>>,
                            dm, SearchFailOf(avail)).docs]
         IN Take(SortByDistance(Flatten(all_search_results)), 5)

\* The fan-out that hands every merged result to the ranker
FanOutUncut(st, u, query, file_ids_str, dm, avail) ==
    IF file_ids_str = <<>> THEN <<>>
    ELSE LET results_per_file == Max(5, 20 \div Len(file_ids_str))
             all_search_results ==
                 [k \in 1..Len(file_ids_str) |->
                     Search(st, u, query, results_per_file, <<file_ids_str[k]>>,
                            dm, SearchFailOf(avail)).docs]
         IN SortByDistance(Flatten(all_search_results))

\* /chat, the per-file searches, merged, sorted and cut to the top 20;
\* no file to search divides by zero and the RAG block is abandoned
FanOut(st, u, query, file_ids_str, dm, avail) ==
    IF file_ids_str = <<>> THEN <<>>
    ELSE LET results_per_file == Max(5, 20 \div Len(file_ids_str))
             all_search_results ==
                 [k \in 1..Len(file_ids_str) |->
                     Search(st, u, query, results_per_file, <<file_ids_str[k]>>,
                            dm, SearchFailOf(avail)).docs]
         IN Take(SortByDistance(Flatten(all_search_results)), 20)

\* /chat after the auto-index loop has left the rows and the store as ix:
\* the searches over the processed files and the assistant message
ChatAnswer(u, query, dm, avail, delegate, fetched, ix) ==
    LET file_ids_str == SeqFilter(fetched, [i \in Range(fetched) |-> ix.files[i].is_processed])
    IN /\ files' = ix.files
       /\ store' = ix.store
       /\ resp'  = IF delegate = "no_provider"
                   THEN Response("chat", u, 0, "http_400", None, <<>>, ix.failed)
                   ELSE Response("chat", u, 0, "ok", GenerateResponse(delegate),
                                 FanOut(ix.store, u, query, file_ids_str, dm, avail), ix.failed)
       /\ UNCHANGED <<call, hasPythainlp>>

\* POST /llm/chat with the file ids `ids` (request and session history)
Chat(u, ids, query, dm, avail, delegate) ==
    ChatAnswer(u, query, dm, avail, delegate, SortedSeq(ids \cap Live(files)),
               AutoIndex(SortedSeq(ids \cap Live(files)), [files |-> files, store |-> store], u, avail, {}))

\* How /chat-with-file finds its session: no session_id given, a session_id
\* of a session of the user, or a session_id that matches no session
Sessions == {"none", "found", "missing"}

\* /chat-with-file, "Search in other session files": one search per file, budget 5
OtherSearches(st, u, query, other_list, dm, avail) ==
    Flatten([k \in 1..Len(other_list) |->
               Search(st, u, query, 5, <<other_list[k]>>, dm, SearchFailOf(avail)).docs])

\* /chat-with-file once process_one has committed the row `row` as file id
\* and process_document has ended as p
ChatWithFileAnswer(u, id, row, p, other_list, query, dm, avail, delegate, session) ==
    IF p.raised
    THEN \* process_one threw out of asyncio.gather: the request fails
         /\ files' = Append(files, row)
         /\ store' = p.store
         /\ resp'  = Response("chat_with_file", u, id, "raised_process_document", None,
                              <<>>, {[id |-> id, avail |-> avail]})
    ELSE /\ files' = Append(files, MarkProcessed(row, p.vid))
         /\ store' = p.store
         /\ resp'  = IF session # "found"
                     THEN Response("chat_with_file", u, id, "raised_session", None, <<>>, {})
                     ELSE IF delegate = "no_provider"
                     THEN Response("chat_with_file", u, id, "raised_provider", None, <<>>, {})
                     ELSE Response("chat_with_file", u, id, "ok", GenerateResponse(delegate),
                                   OtherSearches(p.store, u, query, other_list, dm, avail), {})

\* POST /llm/chat-with-file with one uploaded file of content `kind` and the
\* candidate file ids `ids` (session history and selected files)
ChatWithFile(u, kind, ids, query, dm, avail, delegate, session) ==
    /\ Len(files) < MaxFiles
    /\ ChatWithFileAnswer(u, Len(files) + 1, NewFile(u, kind),
                          ProcessDocument(store, Catalog[kind], Len(files) + 1, u, avail),
                          SortedSeq((ids \cap Live(files)) \ {Len(files) + 1}),
                          query, dm, avail, delegate, session)
    /\ UNCHANGED <<call, hasPythainlp>>

----------------------------------------------------------------------------
(* The platform: uploads, deletions and chat turns of two users *)

\* The contents uploaded, the queries asked and the distances reported in
\* the platform runs
PlatformKinds   == {"txt", "bin", "png"}
PlatformQueries == {Q_owl}
PlatformMaps    == {[t \in ChunkTexts |-> 300], [t \in ChunkTexts |-> 3000]}

NoCall == [op |-> "none"]

NoResponse == Response("none", NoneSeq, 0, None, None, <<>>, {})

Init ==
    /\ files = <<>>
    /\ store = <<>>
    /\ resp = NoResponse
    /\ call = NoCall
    /\ hasPythainlp \in BOOLEAN

DoUpload ==
    \E u \in Users, kind \in PlatformKinds, avail \in Avail : UploadFile(u, kind, avail)

DoDelete ==
    \E u \in Users, id \in FileIds : DeleteFile(u, id)

DoChat ==
    \E u \in Users, ids \in SUBSET (1..Len(files)), query \in PlatformQueries :
      \E avail \in Avail, delegate \in Delegates :
         \E dm \in (IF avail = "ok" THEN PlatformMaps ELSE {FarMap}) :
            Chat(u, ids, query, dm, avail, delegate)

DoChatWithFile ==
    \E u \in Users, kind \in PlatformKinds, ids \in SUBSET (1..Len(files)),
       query \in PlatformQueries :
      \E avail \in Avail, delegate \in Delegates, session \in Sessions :
         \E dm \in (IF avail = "ok" THEN PlatformMaps ELSE {FarMap}) :
            ChatWithFile(u, kind, ids, query, dm, avail, delegate, session)

Next == DoUpload \/ DoDelete \/ DoChat \/ DoChatWithFile

Spec == Init /\ [][Next]_vars

----------------------------------------------------------------------------
(* VectorService.search, applied to the stores that uploads build *)

SearchKinds   == {"pdf", "big"}
SearchBudgets == {5, 20}

\* The outcome of one call of search; accepted1 is bookkeeping of the
\* model: how many candidates Stage 1 accepted (0 when it was not reached)
SearchOutcome(r, accepted1) ==
    [op |-> "search", raised |-> r.raised, failed |-> r.failed, docs |-> r.docs,
     accepted1 |-> accepted1]

\* search(user_id, query, n_results, file_ids) on the current store
SearchCall(u, query, n, file_ids, dm, fail) ==
    LET name == CollectionName(u)
        r    == Search(store, u, query, n, file_ids, dm, fail)
        reached1 == fail \notin {"client", "get_collection", "query"} /\ name \in DOMAIN store
    IN /\ call' = [op |-> "search", user |-> u, query |-> query, n_results |-> n,
                   file_ids |-> file_ids, fail |-> fail]
       /\ resp' = SearchOutcome(r, IF reached1
                                   THEN Len(Stage1(store[name], name, query, n, file_ids, dm))
                                   ELSE 0)
       /\ UNCHANGED <<files, store, hasPythainlp>>

\* Documents are uploaded to a reachable store, then search is called once
SearchIndex ==
    /\ call = NoCall
    /\ \E u \in Users, kind \in SearchKinds : UploadFile(u, kind, "ok")

SearchApply ==
    /\ call = NoCall
    /\ \E u \in Users, query \in Queries, n \in SearchBudgets,
          file_ids \in {<<>>} \cup {<<id>> : id \in FileIds}, fail \in SearchFails :
         \E dm \in (IF fail \in {"client", "get_collection", "query"} THEN {FarMap} ELSE DistMaps) :
            SearchCall(u, query, n, file_ids, dm, fail)

NextSearch == SearchIndex \/ SearchApply

SpecSearch == Init /\ [][NextSearch]_vars

----------------------------------------------------------------------------
(* VectorService.process_document, called repeatedly *)

IndexKinds == {"txt", "pdf", "doc", "bad", "bin"}

\* The outcome of one call of process_document; again is bookkeeping of the
\* model: the collection already held chunks of the file before the call
IndexOutcome(u, id, avail, p, again) ==
    [op |-> "process_document", user |-> u, target |-> id, avail |-> avail,
     raised |-> p.raised, vid |-> p.vid, again |-> again]

\* A file row is committed, as upload_file and process_one do before indexing
IndexRegister ==
    /\ Len(files) < MaxFiles
    /\ \E u \in Users, kind \in IndexKinds :
         /\ files' = Append(files, NewFile(u, kind))
         /\ resp'  = Response("upload", u, Len(files) + 1, "ok", None, <<>>, {})
    /\ UNCHANGED <<store, call, hasPythainlp>>

\* How many calls of process_document have been made
CallsDone == IF call.op = "process_document" THEN call.done ELSE 0

\* process_document(storage_path of file id, id, u)
IndexCall ==
    /\ CallsDone < MaxCalls
    /\ \E u \in Users, id \in 1..Len(files), avail \in Avail :
         LET p == ProcessDocument(store, Catalog[files[id].kind], id, u, avail)
         IN /\ store' = p.store
            /\ resp'  = IndexOutcome(u, id, avail, p, ChunksIn(store, u, id) # <<>>)
            /\ call'  = [op |-> "process_document",
                         done |-> CallsDone + 1]
    /\ UNCHANGED <<files, hasPythainlp>>

NextIndex == IndexRegister \/ IndexCall

SpecIndex == Init /\ [][NextIndex]_vars

----------------------------------------------------------------------------
(* Properties of the platform *)

ChatOps == {"chat", "chat_with_file"}

\* C1: every chunk a chat turn of user A retrieves was read from A's own
\* collection and carries A's user id, never a chunk stored in the collection
\* of another user, also when both hold documents with the same text.
C1_SearchIsolation ==
    resp.op \in ChatOps =>
        \A o \in resp.results :
            /\ o.user_id = resp.user
            /\ \A b \in Users \ {resp.user} : o.coll # CollectionName(b)

\* A chat turn retrieved chunks while the other user's collection holds a
\* chunk with the same text as a chunk of the requesting user
C1_Witness ==
    /\ resp.op \in ChatOps
    /\ resp.results # {}
    /\ \E b \in Users \ {resp.user} :
         /\ CollectionName(b) \in DOMAIN store
         /\ CollectionName(resp.user) \in DOMAIN store
         /\ \E r \in Range(store[CollectionName(b)]),
               q \in Range(store[CollectionName(resp.user)]) : r.document = q.document

\* C2: every chunk stored in the collection of user U carries user_id = U and
\* the file id of a document owned by U.
C2_ChunksBelongToOwner ==
    \A u \in Users :
        CollectionName(u) \in DOMAIN store =>
            \A r \in Range(store[CollectionName(u)]) :
                /\ r.metadata.user_id = u
                /\ r.metadata.file_id \in Live(files) =>
                       files[r.metadata.file_id].user_id = u

\* C3: after a successful delete-file request no chunk of the deleted
\* document remains in the owner's collection.
C3_DeleteRemovesChunks ==
    (resp.op = "delete" /\ resp.status = "ok") =>
        ChunksIn(store, resp.user, resp.target) = <<>>

\* C4: a document marked processed has a vector id and has chunks in its
\* owner's collection.
C4_ProcessedIsIndexed ==
    \A id \in Live(files) :
        files[id].is_processed =>
            /\ files[id].vector_id # NoneSeq
            /\ ChunksIn(store, files[id].user_id, id) # <<>>

\* C5: a chat turn of a user with a configured provider and a valid session
\* always completes with an assistant message, whatever fails in extraction,
\* indexing, retrieval or the completion delegate.
C5_ChatAlwaysAnswers ==
    (resp.op \in ChatOps /\ resp.status \notin {"http_400", "raised_session", "raised_provider"}) =>
        (resp.status = "ok" /\ resp.content \in {"answer", "error"})

\* C8: when indexing a document fails because the store is unavailable, the
\* document stays unprocessed without a vector id and the request that
\* triggered the indexing does not fail for it.
C8_FailedIndexingKeepsUnprocessed ==
    \A x \in resp.indexFailed :
        x.avail # "ok" =>
            /\ ~files[x.id].is_processed
            /\ files[x.id].vector_id = NoneSeq
            /\ resp.status # "raised_process_document"

----------------------------------------------------------------------------
(* Properties of process_document *)

\* C6: however often process_document has indexed a file into a collection,
\* the collection holds for that file exactly the chunks of one indexing, no
\* chunk id is stored twice, and a repeated call on a reachable store does
\* not fail.
C6_ReindexIdempotent ==
    /\ \A u \in Users, id \in 1..Len(files) :
          ChunksIn(store, u, id) # <<>> =>
             ChunksIn(store, u, id) =
                ChunkRecords(ExtractWithMetadata(Catalog[files[id].kind]), id, u)
    /\ \A name \in DOMAIN store :
          Cardinality({store[name][i].id : i \in 1..Len(store[name])}) = Len(store[name])
    /\ (resp.op = "process_document" /\ resp.again /\ resp.avail = "ok") => ~resp.raised

\* A file that was already indexed in the collection has been indexed again
C6_Witness ==
    /\ resp.op = "process_document"
    /\ resp.again
    /\ ~resp.raised
    /\ resp.vid # NoneSeq
    /\ Len(ChunksIn(store, resp.user, resp.target)) > 1

----------------------------------------------------------------------------
(* Properties of search *)

\* A failing store call was met inside the call of search
FailureMet ==
    \/ call.fail \in {"client", "get_collection", "query"}
    \/ CollectionName(call.user) \notin DOMAIN store
    \/ resp.failed

\* C7: search never raises; when the client is unavailable, the user's
\* collection does not exist or a store call fails, it returns the empty list.
C7_SearchNeverRaises ==
    resp.op = "search" =>
        /\ ~resp.raised
        /\ FailureMet => resp.docs = <<>>

\* The fetch of the Stage 2 pool failed after Stage 1 had accepted nothing
C7_Witness ==
    /\ resp.op = "search"
    /\ call.fail = "get2"
    /\ resp.failed
    /\ ChunksIn(store, call.user, 1) # <<>>

\* `doc` contains a query token of more than 2 characters
HasKeyword(doc, query) ==
    \E w \in Range(Split(Lower(query))) : Len(w) > 2 /\ Contains(Lower(doc), w)

\* A search restricted to one file with indexed chunks, all store calls
\* succeeding, in which Stage 1 accepted no candidate
Stage1Empty ==
    /\ resp.op = "search"
    /\ ~resp.failed
    /\ Len(call.file_ids) = 1
    /\ ChunksIn(store, call.user, call.file_ids[1]) # <<>>
    /\ resp.accepted1 = 0

\* Every result comes from Stage 2 with distance 0.4, and there is one
Stage2Answered ==
    /\ resp.docs # <<>>
    /\ \A i \in 1..Len(resp.docs) : resp.docs[i].distance = 400 /\ resp.docs[i].stage = 2

\* C9 as claimed: if Stage 1 accepts nothing and some chunk of the file
\* contains a keyword of the query, Stage 2 returns at least one result and
\* all results have distance 0.4.
C9_CascadeFallbackAnyChunk ==
    (Stage1Empty /\ \E r \in Range(ChunksIn(store, call.user, call.file_ids[1])) :
                        HasKeyword(r.document, call.query))
        => Stage2Answered

\* C9 as amended: the same when the chunk with the keyword is among the 50
\* chunks Stage 2 fetches for the file.
C9_CascadeFallbackInPool ==
    (Stage1Empty /\ \E r \in Range(CollectionGet(store[CollectionName(call.user)],
                                                 call.file_ids, 50)) :
                        HasKeyword(r.document, call.query))
        => Stage2Answered

\* Stage 1 accepted nothing and Stage 2 found the keyword
C9_Witness ==
    /\ Stage1Empty
    /\ call.query = Q_owl
    /\ Stage2Answered

\* C10: with every store call succeeding, a search restricted to a file that
\* has a chunk in the caller's collection returns a result for every query;
\* the results Stage 3 supplies have distance 0.6.
C10_SelectedFileGrounded ==
    (/\ resp.op = "search"
     /\ call.fail = "none"
     /\ Len(call.file_ids) = 1
     /\ ChunksIn(store, call.user, call.file_ids[1]) # <<>>)
        => /\ resp.docs # <<>>
           /\ \A i \in 1..Len(resp.docs) :
                 resp.docs[i].stage = 3 => resp.docs[i].distance = 600

\* Stages 1 and 2 gave nothing and Stage 3 supplied the chunks
C10_Witness ==
    /\ resp.op = "search"
    /\ call.fail = "none"
    /\ Len(call.file_ids) = 1
    /\ resp.accepted1 = 0
    /\ resp.docs # <<>>
    /\ \A i \in 1..Len(resp.docs) : resp.docs[i].stage = 3

----------------------------------------------------------------------------
(* The citation ranker of the chat handlers *)

\* num / den rounded to the nearest integer; round(x, 3) on scores kept in
\* thousandths (no score of the model falls on a tie)
RoundDiv(num, den) == (2 * num + den) \div (2 * den)

\* 1.0 / (1.0 + dist * 0.35) in thousandths, as the fraction num / den, for
\* a distance in thousandths
RawScore(dist) == [num |-> 20000000, den |-> 20000 + 7 * dist]

\* max(floor, x) and min(cap, x) on fractions, floor and cap in thousandths
FracMax(floor, x) == IF x.num >= floor * x.den THEN x ELSE [num |-> floor, den |-> 1]
FracMin(cap, x)   == IF x.num <= cap * x.den THEN x ELSE [num |-> cap, den |-> 1]

\* The English keywords of a broad request (the Thai keywords lie outside
\* the alphabet of the modelled texts)
BroadWords == { <<"s","u","m","m","a","r","i","z","e">>, <<"s","u","m","m","a","r","y">>,
                <<"o","v","e","r","v","i","e","w">> }

IsBroadQuery(query) == \E w \in BroadWords : Contains(Lower(query), w)

\* /chat: the floor or the broad-query raise, before the top-match boost
ChatFloor(dist, broad) ==
    IF broad
    THEN FracMax(700, [num |-> RawScore(dist).num + 100 * RawScore(dist).den,
                       den |-> RawScore(dist).den])
    ELSE FracMax(450, RawScore(dist))

\* The boost given to the matches at 0.4 and beyond
ChatBoostFar(dist, x) ==
    IF dist >= 400 THEN FracMin(990, [num |-> 11 * x.num, den |-> 10 * x.den]) ELSE x

\* /chat: `if dist < 0.4: score = min(0.99, score * 1.1)`
ChatBoost(dist, x) ==
    IF dist < 400 THEN FracMin(990, [num |-> 11 * x.num, den |-> 10 * x.den]) ELSE x

\* /chat: current_score, in thousandths
ChatScore(dist, broad) ==
    RoundDiv(ChatBoost(dist, ChatFloor(dist, broad)).num,
             ChatBoost(dist, ChatFloor(dist, broad)).den)

\* /chat-with-file: max(0.65, round(1.0 / (1.0 + dist * 0.35), 3)), in thousandths
ChatWithFileScore(dist) == Max(650, RoundDiv(RawScore(dist).num, RawScore(dist).den))

\* chunk[:200] + "..."
Preview(chunk) == Take(chunk, 200) \o <<".", ".", ".">>

\* Citation(source, file_id, page, content, relevance_score); the source
\* name follows the file id
Citation(file_id, page, chunk, score) ==
    [file_id |-> file_id, page |-> page, content |-> Preview(chunk), relevance_score |-> score]

\* unique_citations[fid] = c on a dict kept as the sequence of its values in
\* insertion order: a new key is appended, a known key keeps its place
DictPut(unique, c) ==
    IF \E k \in 1..Len(unique) : unique[k].file_id = c.file_id
    THEN [k \in 1..Len(unique) |-> IF unique[k].file_id = c.file_id THEN c ELSE unique[k]]
    ELSE Append(unique, c)

\* `fid not in unique_citations or score > unique_citations[fid].relevance_score`
Better(unique, c) ==
    \A k \in 1..Len(unique) :
        unique[k].file_id = c.file_id => c.relevance_score > unique[k].relevance_score

\* The update keeping the latest match of a file instead of the best
KeepLast(unique, c) == DictPut(unique, c)

\* The update appending one citation per result
KeepAll(unique, c) == Append(unique, c)

\* "Only add or update if it's a better match for this file"
Remember(unique, c) == IF Better(unique, c) THEN DictPut(unique, c) ELSE unique

\* citations.sort(key=relevance_score, reverse=True): a stable sort
RECURSIVE SortedDesc(_)
SortedDesc(S) ==
    IF S = {} THEN <<>>
    ELSE LET m == CHOOSE x \in S : \A y \in S : x >= y
         IN <<m>> \o SortedDesc(S \ {m})

SortByScore(cs) ==
    Flatten([k \in 1..Cardinality({cs[i].relevance_score : i \in 1..Len(cs)}) |->
               SeqFilter(cs, [c \in Range(cs) |->
                   c.relevance_score =
                     SortedDesc({cs[i].relevance_score : i \in 1..Len(cs)})[k]])])

\* /chat: the loop over search_results filling unique_citations
RECURSIVE ChatRankLoop(_, _, _)
ChatRankLoop(results, broad, unique) ==
    IF results = <<>> THEN unique
    ELSE IF Strip(Head(results).content) = <<>>
    THEN ChatRankLoop(Tail(results), broad, unique)
    ELSE ChatRankLoop(Tail(results), broad,
             Remember(unique, Citation(Head(results).metadata.file_id,
                                       Head(results).metadata.page,
                                       Head(results).content,
                                       ChatScore(Head(results).distance, broad))))

\* /chat: the citations of a response
ChatCitations(search_results, query) ==
    SortByScore(ChatRankLoop(search_results, IsBroadQuery(query), <<>>))

\* LLMService.extract_file_content: the text of an upload, or a marker
\* for an image, an unsupported type or a failed read
ExtractFileContent(f) ==
    IF f.mime = "text/plain" \/ f.ext = "txt"
    THEN Flatten(f.pages)
    ELSE IF f.ext = "pdf" \/ f.ext = "docx"
    THEN (IF f.readable THEN Flatten([i \in 1..Len(f.pages) |-> f.pages[i] \o <<"\n">>])
          ELSE <<"[File] - Error">>)
    ELSE IF f.mime = "image/png" THEN <<"[Image File]">>
    ELSE <<"[File] - Unsupported file type">>

\* /chat-with-file: the citation of each new upload, score 0.99, page "1"
NewFileCitations(new_ids) ==
    [k \in 1..Len(new_ids) |->
        Citation(new_ids[k], <<"1">>, ExtractFileContent(Catalog[files[new_ids[k]].kind]), 990)]

\* /chat-with-file: the results of the searches in the other files, one
\* list per file of other_list
OtherResults(st, u, query, other_list, dm, avail) ==
    [k \in 1..Len(other_list) |->
        Search(st, u, query, 5, <<other_list[k]>>, dm, SearchFailOf(avail)).docs]

\* /chat-with-file: the loop over the results of one searched file
RECURSIVE FileRankLoop(_, _, _)
FileRankLoop(r_list, fid, unique) ==
    IF r_list = <<>> THEN unique
    ELSE IF Strip(Head(r_list).content) = <<>>
    THEN FileRankLoop(Tail(r_list), fid, unique)
    ELSE FileRankLoop(Tail(r_list), fid,
             Remember(unique, Citation(fid, Head(r_list).metadata.page,
                                       Strip(Head(r_list).content),
                                       ChatWithFileScore(Head(r_list).distance))))

\* /chat-with-file: the loop over the searched files
RECURSIVE OtherRankLoop(_, _, _)
OtherRankLoop(other_list, s_results, unique) ==
    IF other_list = <<>> THEN unique
    ELSE OtherRankLoop(Tail(other_list), Tail(s_results),
                       FileRankLoop(Head(s_results), Head(other_list), unique))

\* /chat-with-file: the citations of a response
ChatWithFileCitations(new_ids, other_list, s_results) ==
    SortByScore(OtherRankLoop(other_list, s_results, NewFileCitations(new_ids)))

----------------------------------------------------------------------------
(* The ranker applied to the results the searches return *)

CiteKinds   == {"txt", "pdf"}
Q_summary   == <<"o", "w", "l", " ", "s", "u", "m", "m", "a", "r", "y">>
CiteQueries == {Q_owl, Q_elk, Q_summary}

\* The ranking of one response: the handler, the query, the results handed
\* to the ranker and the files cited without a search (the new uploads)
Ranking(op, query, retained, new_ids) ==
    [op |-> op, query |-> query, retained |-> retained, new_ids |-> new_ids]

Cited(op, citations) == [op |-> op, citations |-> citations]

\* Documents are uploaded to a reachable store
CiteIndex ==
    /\ call = NoCall
    /\ \E u \in Users, kind \in CiteKinds : UploadFile(u, kind, "ok")

\* /chat over the processed files ids: retrieval, then the ranking
CiteChatOf(u, query, retained) ==
    /\ call' = Ranking("chat", query, retained, <<>>)
    /\ resp' = Cited("chat", ChatCitations(retained, query))
    /\ UNCHANGED <<files, store, hasPythainlp>>

CiteChat ==
    /\ call = NoCall
    /\ \E u \in Users, ids \in SUBSET (1..Len(files)) \ {{}}, query \in CiteQueries :
         \E dm \in DistMaps :
            CiteChatOf(u, query, FanOut(store, u, query, SortedSeq(ids), dm, "ok"))

\* /chat-with-file whose upload is the latest file: the searches in the
\* other files, then the ranking
CiteChatWithFileOf(query, new_ids, other_list, s_results) ==
    /\ call' = Ranking("chat_with_file", query, Flatten(s_results), new_ids)
    /\ resp' = Cited("chat_with_file", ChatWithFileCitations(new_ids, other_list, s_results))
    /\ UNCHANGED <<files, store, hasPythainlp>>

CiteChatWithFile ==
    /\ call = NoCall
    /\ files # <<>>
    /\ \E ids \in SUBSET (1..(Len(files) - 1)), query \in CiteQueries :
         \E dm \in DistMaps :
            CiteChatWithFileOf(query, <<Len(files)>>, SortedSeq(ids),
                               OtherResults(store, files[Len(files)].user_id, query,
                                            SortedSeq(ids), dm, "ok"))

NextCite == CiteIndex \/ CiteChat \/ CiteChatWithFile

SpecCite == Init /\ [][NextCite]_vars

----------------------------------------------------------------------------
(* Properties of the citation ranker *)

\* The file ids of the results handed to the ranker, and of the new uploads
RetainedFiles == {call.retained[i].metadata.file_id : i \in 1..Len(call.retained)}
               \cup Range(call.new_ids)

\* C11: the citation list of a response holds exactly one citation per
\* distinct file id among the retained search results (and the new uploads
\* of /chat-with-file).
C11_OneCitationPerFile ==
    resp.op \in ChatOps /\ call.op \in ChatOps =>
        /\ Len(resp.citations) = Cardinality(RetainedFiles)
        /\ {resp.citations[k].file_id : k \in 1..Len(resp.citations)} = RetainedFiles

\* More results than files were ranked, over two files
C11_Witness ==
    /\ call.op = "chat"
    /\ Cardinality(RetainedFiles) = 2
    /\ Len(call.retained) > 2
    /\ Len(resp.citations) = 2

\* The score the handler of the ranked response gives a result
ScoreOf(r) ==
    IF call.op = "chat" THEN ChatScore(r.distance, IsBroadQuery(call.query))
    ELSE ChatWithFileScore(r.distance)

\* The preview the handler of the ranked response cuts from a result
PreviewOf(r) ==
    IF call.op = "chat" THEN Preview(r.content) ELSE Preview(Strip(r.content))

\* The retained results of file fid
ResultsOf(fid) ==
    {call.retained[i] : i \in {j \in 1..Len(call.retained) :
                                  call.retained[j].metadata.file_id = fid}}

\* C12: the citation of every file with retained results carries the
\* maximum score over the results of that file, and its page label and
\* preview come from a result that attains that maximum.
C12_BestMatchWins ==
    resp.op \in ChatOps /\ call.op \in ChatOps =>
        \A k \in 1..Len(resp.citations) :
            LET c == resp.citations[k] IN
            ResultsOf(c.file_id) # {} =>
                /\ \A r \in ResultsOf(c.file_id) : ScoreOf(r) <= c.relevance_score
                /\ \E r \in ResultsOf(c.file_id) :
                      /\ ScoreOf(r) = c.relevance_score
                      /\ r.metadata.page = c.page
                      /\ PreviewOf(r) = c.content

\* A cited file had two results with different scores
C12_Witness ==
    /\ resp.op \in ChatOps /\ call.op \in ChatOps
    /\ \E k \in 1..Len(resp.citations) :
          \E r1, r2 \in ResultsOf(resp.citations[k].file_id) :
              /\ ScoreOf(r1) < ScoreOf(r2)
              /\ ScoreOf(r2) = resp.citations[k].relevance_score

\* C13: for a query that is not broad, every relevance score of a response
\* of either chat handler lies between 0.45 and 0.99.
C13_ScoreBounds ==
    (resp.op \in ChatOps /\ call.op \in ChatOps /\ ~IsBroadQuery(call.query)) =>
        \A k \in 1..Len(resp.citations) :
            /\ 450 <= resp.citations[k].relevance_score
            /\ resp.citations[k].relevance_score <= 990

----------------------------------------------------------------------------
(* VectorService._split_text, applied to short texts *)

MaxLen == 5

\* The characters of the short texts: a letter, a space, a Thai character
SplitAlphabet == {"a", " ", "TH"}

RECURSIVE TextsUpTo(_)
TextsUpTo(n) ==
    IF n = 0 THEN {<<>>}
    ELSE TextsUpTo(n - 1) \cup
         {Append(t, c) : t \in {x \in TextsUpTo(n - 1) : Len(x) = n - 1}, c \in SplitAlphabet}

\* chunk_size and overlap for the short texts, overlap at most half of
\* chunk_size as in the defaults 600 and 120
ShortParams == {<<3, 1>>, <<4, 1>>, <<4, 2>>}

SplitInputs ==
    {[text |-> t, chunk_size |-> p[1], overlap |-> p[2]] : t \in TextsUpTo(MaxLen), p \in ShortParams}

\* _split_text(text, chunk_size, overlap) is called once
SplitApply ==
    /\ call = NoCall
    /\ \E in \in SplitInputs :
         /\ call' = [op |-> "split_text", text |-> in.text,
                     chunk_size |-> in.chunk_size, overlap |-> in.overlap]
         /\ resp' = [op |-> "split_text",
                     chunks |-> SplitText(in.text, in.chunk_size, in.overlap),
                     starts |-> IF HasThai(in.text) /\ hasPythainlp THEN <<>>
                                ELSE WindowStarts(Join(Split(in.text)), 0,
                                                  in.chunk_size, in.overlap)]
    /\ UNCHANGED <<files, store, hasPythainlp>>

NextSplit == SplitApply

SpecSplit == Init /\ [][NextSplit]_vars

----------------------------------------------------------------------------
(* Properties of _split_text *)

\* The call took the language-aware branch
ThaiMode == HasThai(call.text) /\ hasPythainlp

\* C14: every chunk _split_text emits is at most chunk_size long, except, in
\* the language-aware mode, a chunk that is one sentence longer than
\* chunk_size.
C14_ChunkSizeBound ==
    resp.op = "split_text" =>
        \A k \in 1..Len(resp.chunks) :
            \/ Len(resp.chunks[k]) <= call.chunk_size
            \/ /\ ThaiMode
               /\ resp.chunks[k] \in Range(Split(call.text))

\* Both modes emitted chunks: a window of full chunk_size in the default
\* mode, or a sentence longer than chunk_size in the language-aware mode
C14_Witness ==
    /\ resp.op = "split_text"
    /\ \E k \in 1..Len(resp.chunks) :
          \/ ~ThaiMode /\ Len(resp.chunks[k]) = call.chunk_size /\ Len(resp.chunks) > 1
          \/ ThaiMode /\ Len(resp.chunks[k]) > call.chunk_size

\* C15: _split_text returns no chunk for the empty text and exactly one
\* chunk for a text with a visible character whose whitespace-normalised
\* length is less than chunk_size.
C15_ShortInputOneChunk ==
    resp.op = "split_text" =>
        /\ call.text = <<>> => resp.chunks = <<>>
        /\ (Strip(call.text) # <<>> /\ Len(Join(Split(call.text))) < call.chunk_size)
              => Len(resp.chunks) = 1

\* The last `n` characters of a chunk
LastChars(chunk, n) == SubSeq(chunk, Len(chunk) - n + 1, Len(chunk))

\* C16: in the default mode, the last `overlap` characters of every emitted
\* chunk that has a successor are the first characters of that successor
\* (the whole successor when it is shorter than overlap).
C16_ConsecutiveChunksOverlap ==
    (resp.op = "split_text" /\ ~ThaiMode) =>
        \A k \in 1..(Len(resp.chunks) - 1) :
            /\ Len(resp.chunks[k]) >= call.overlap
            /\ Take(resp.chunks[k + 1], call.overlap)
                 = Take(LastChars(resp.chunks[k], call.overlap), Len(resp.chunks[k + 1]))

----------------------------------------------------------------------------
(* Properties of extraction *)

\* Extraction of the file fails: its reader throws, or no encoding reads it
\* as text without a NUL byte
ExtractionFails(f) ==
    \/ ~f.readable
    \/ f.ext \notin {"pdf", "docx"} /\ f.nul

\* C17: when extraction of a file fails, whatever its type, the extractor
\* returns an empty list, and process_document on a reachable store returns
\* without raising, without a vector id and without writing to the index.
C17_FailedExtractionSkips ==
    (/\ resp.op = "process_document"
     /\ resp.avail = "ok"
     /\ ExtractionFails(Catalog[files[resp.target].kind])) =>
        /\ ExtractWithMetadata(Catalog[files[resp.target].kind]) = <<>>
        /\ ~resp.raised
        /\ resp.vid = NoneSeq
        /\ ChunksIn(store, resp.user, resp.target) = <<>>

----------------------------------------------------------------------------
(* The fan-out of /chat over the processed files of one user *)

MaxFanFiles == 5

FanUser    == <<"a", "-", "1">>
FanKinds   == {"rpt", "txt"}
FanQueries == {Q_owl, Q_elk}
FanMaps    == {[t \in ChunkTexts |-> 300],
               [t \in ChunkTexts |-> IF t = T_owl THEN 300 ELSE 1900],
               [t \in ChunkTexts |-> IF t = T_owl THEN 3000 ELSE 300],
               FarMap}

\* Documents are uploaded to a reachable store
FanIndex ==
    /\ call = NoCall
    /\ Len(files) < MaxFanFiles
    /\ \E kind \in FanKinds : UploadFileOf(FanUser, kind, "ok")

\* /chat over the processed files file_ids_str: what the fan-out hands to
\* the citation ranker
FanChatOf(query, file_ids_str, dm, search_results) ==
    /\ call' = [op |-> "chat", query |-> query, file_ids_str |-> file_ids_str, dm |-> dm]
    /\ resp' = [op |-> "chat", search_results |-> search_results]
    /\ UNCHANGED <<files, store, hasPythainlp>>

FanChat ==
    /\ call = NoCall
    /\ \E ids \in SUBSET (1..Len(files)) \ {{}}, query \in FanQueries :
         \E dm \in FanMaps :
            FanChatOf(query, SortedSeq(ids), dm,
                      FanOut(store, FanUser, query, SortedSeq(ids), dm, "ok"))

NextFan == FanIndex \/ FanChat

SpecFanOut == Init /\ [][NextFan]_vars

----------------------------------------------------------------------------
(* Properties of the fan-out *)

\* The results of the search of file fid with result budget n
BudgetSearch(fid, n) ==
    Search(store, FanUser, call.query, n, <<fid>>, call.dm, "none").docs

\* The results of all per-file searches of the turn, each with budget n
Merged(n) ==
    UNION { Range(BudgetSearch(call.file_ids_str[k], n)) : k \in 1..Len(call.file_ids_str) }

\* C18: in a /chat turn over n processed files the list handed to the
\* citation ranker holds results of the per-file searches with budget
\* max(5, floor(20 / n)), without repetition, in non-decreasing distance,
\* at most 20 of them, and every result left out is at least as far as
\* every result kept.
C18_FanOutBudgetSortCut ==
    (resp.op = "chat" /\ call.op = "chat") =>
        LET n      == Len(call.file_ids_str)
            merged == Merged(Max(5, 20 \div n))
            kept   == resp.search_results
        IN /\ Range(kept) \subseteq merged
           /\ Cardinality(Range(kept)) = Len(kept)
           /\ Len(kept) = Min(20, Cardinality(merged))
           /\ \A i \in 1..(Len(kept) - 1) : kept[i].distance <= kept[i + 1].distance
           /\ \A r \in merged \ Range(kept) :
                  \A i \in 1..Len(kept) : kept[i].distance <= r.distance

\* Five files were searched, the searches returned more than 20 results at
\* different distances, and 20 were handed on
C18_Witness ==
    /\ resp.op = "chat" /\ call.op = "chat"
    /\ Len(call.file_ids_str) = 5
    /\ Cardinality(Merged(5)) > 20
    /\ Len(resp.search_results) = 20
    /\ resp.search_results[1].distance < resp.search_results[20].distance

----------------------------------------------------------------------------
(* LLMService.generate_response and its delegates *)

\* class ProviderType
ProviderTypes == {"openai", "anthropic", "google", "groq", "cohere", "mistral",
                  "together", "custom", "zai"}

\* The provider types served through the OpenAI-compatible API
OpenAICompatible == {"openai", "groq", "together", "mistral", "custom", "zai"}

\* _get_default_base_url: "" for a type without a default
GetDefaultBaseUrl(provider_type) ==
    IF provider_type \in {"openai", "groq", "together", "mistral", "zai"}
    THEN "default_url" ELSE ""

\* How the call to the provider ends: a reply, or an exception of one of
\* four kinds (the text of a quota failure holds "429")
FailureKinds == {"timeout", "quota", "auth", "other"}

\* A reply of text_len characters; with has_usage the provider reports
\* usage_prompt and usage_completion tokens itself
Reply(text_len, has_usage, usage_prompt, usage_completion) ==
    [kind |-> "reply", text_len |-> text_len, has_usage |-> has_usage,
     usage_prompt |-> usage_prompt, usage_completion |-> usage_completion]

Failure(kind) ==
    [kind |-> kind, text_len |-> 0, has_usage |-> FALSE,
     usage_prompt |-> 0, usage_completion |-> 0]

\* The dict a generator returns; error_type is None where the dict has no
\* such key
Generated(content, prompt_tokens, completion_tokens, total_tokens, error_type) ==
    [raised |-> FALSE, content |-> content, prompt_tokens |-> prompt_tokens,
     completion_tokens |-> completion_tokens, total_tokens |-> total_tokens,
     error_type |-> error_type]

\* An exception leaving a generator
Raised == [raised |-> TRUE, content |-> None, prompt_tokens |-> 0,
           completion_tokens |-> 0, total_tokens |-> 0, error_type |-> None]

\* _generate_google
GenerateGoogle(outcome, prompt_tokens) ==
    IF outcome.kind = "reply"
    THEN Generated("answer", prompt_tokens, outcome.text_len \div 4,
                   prompt_tokens + (outcome.text_len \div 4), None)
    ELSE IF outcome.kind = "quota"
    THEN Generated("quota_message", prompt_tokens, 0, prompt_tokens, "quota_exceeded")
    ELSE Raised

\* _generate_openai_compatible
GenerateOpenaiCompatible(outcome, prompt_tokens) ==
    IF outcome.kind = "reply"
    THEN IF outcome.has_usage
         THEN Generated("answer", outcome.usage_prompt, outcome.usage_completion,
                        outcome.usage_prompt + outcome.usage_completion, None)
         ELSE Generated("answer", prompt_tokens, outcome.text_len \div 4,
                        prompt_tokens + (outcome.text_len \div 4), None)
    ELSE Raised

\* _generate_anthropic
GenerateAnthropic(outcome, prompt_tokens) ==
    IF outcome.kind = "reply"
    THEN IF outcome.has_usage
         THEN Generated("answer", outcome.usage_prompt, outcome.usage_completion,
                        outcome.usage_prompt + outcome.usage_completion, None)
         ELSE Generated("answer", prompt_tokens, outcome.text_len \div 4, 0, None)
    ELSE Raised

\* The try block of generate_response: the dispatch on the provider type
Dispatch(provider_type, api_base_url, outcome, prompt_tokens) ==
    IF provider_type = "google" THEN GenerateGoogle(outcome, prompt_tokens)
    ELSE IF provider_type \in OpenAICompatible
    THEN LET base_url == IF api_base_url # "" THEN api_base_url
                         ELSE GetDefaultBaseUrl(provider_type)
         IN IF base_url = "" /\ provider_type = "custom" THEN Raised
            ELSE GenerateOpenaiCompatible(outcome, prompt_tokens)
    ELSE IF provider_type = "anthropic" THEN GenerateAnthropic(outcome, prompt_tokens)
    ELSE Raised

\* generate_response(message, provider, model, ...) with a prompt of
\* prompt_len characters
LLMGenerateResponse(provider_type, api_base_url, outcome, prompt_len) ==
    LET prompt_tokens == prompt_len \div 4
        r == Dispatch(provider_type, api_base_url, outcome, prompt_tokens)
    IN IF r.raised
       THEN Generated("error_message", prompt_tokens, 0, prompt_tokens, None)
       ELSE r

----------------------------------------------------------------------------
(* generate_response, called once *)

BaseUrls   == {"", "user_url"}
PromptLens == {2001, 2400}
Outcomes   == {Failure(k) : k \in FailureKinds}
                \cup {Reply(9, FALSE, 0, 0), Reply(9, TRUE, 480, 3)}

LLMCall ==
    /\ call = NoCall
    /\ \E provider_type \in ProviderTypes, api_base_url \in BaseUrls,
          outcome \in Outcomes, prompt_len \in PromptLens :
          /\ call' = [op |-> "generate_response", provider_type |-> provider_type,
                      api_base_url |-> api_base_url, outcome |-> outcome,
                      prompt_len |-> prompt_len]
          /\ resp' = [op |-> "generate_response",
                      result |-> LLMGenerateResponse(provider_type, api_base_url,
                                                     outcome, prompt_len)]
    /\ UNCHANGED <<files, store, hasPythainlp>>

NextLLM == LLMCall

SpecLLM == Init /\ [][NextLLM]_vars

----------------------------------------------------------------------------
(* Properties of generate_response *)

\* The call could not be served: the provider is not supported, a custom
\* provider has no base URL, or the call to the provider failed
DelegateFailed ==
    \/ call.provider_type \notin OpenAICompatible \cup {"google", "anthropic"}
    \/ call.provider_type = "custom" /\ call.api_base_url = ""
    \/ call.outcome.kind \in FailureKinds

\* C19: for every provider type and every failure of the delegate,
\* generate_response does not raise and returns an error message as content
\* with completion_tokens = 0 and with an error classification.
C19_DelegateFailureClassified ==
    (resp.op = "generate_response" /\ DelegateFailed) =>
        /\ ~resp.result.raised
        /\ resp.result.content \in {"error_message", "quota_message"}
        /\ resp.result.completion_tokens = 0
        /\ resp.result.error_type # None

----------------------------------------------------------------------------
(* Two concurrent /chat turns of the owner over a file not yet indexed *)

Turns == {1, 2}

RaceKinds == {"txt", "pdf", "png", "doc"}

\* Where a turn stands in the auto-index loop: before the batch fetch of the
\* rows, inside process_document before get_or_create_collection or before
\* collection.add, before db.commit(), or past the loop
Turn(pc, v_id) == [pc |-> pc, v_id |-> v_id]

\* A file is committed without being indexed: an image, or a document
\* uploaded while the store could not be reached
RaceUpload ==
    /\ call = NoCall
    /\ Len(files) < MaxFiles
    /\ \E u \in Users, kind \in RaceKinds : UploadFileOf(u, kind, "store_error")

\* Two chat requests of the owner that reference the file arrive
RaceBegin ==
    /\ call = NoCall
    /\ \E id \in 1..Len(files) :
         /\ ~files[id].is_processed
         /\ call' = [op |-> "chat", target |-> id,
                     turns |-> [t \in Turns |-> Turn("fetch", NoneSeq)]]
    /\ UNCHANGED <<files, store, resp, hasPythainlp>>

\* The turns in flight, and the position of turn t
Racing == call.op = "chat"

At(t, pc) == Racing /\ call.turns[t].pc = pc

\* Turn t moves to position pc holding v_id
Move(t, pc, v_id) == call' = [call EXCEPT !.turns[t] = Turn(pc, v_id)]

\* `select(File)`, `if not f.is_processed`, then process_document up to the
\* extraction: a processed row is skipped, no text returns None
TurnFetch(t) ==
    /\ At(t, "fetch")
    /\ LET f == files[call.target]
       IN IF f.is_processed THEN Move(t, "done", NoneSeq)
          ELSE IF ExtractWithMetadata(Catalog[f.kind]) = <<>>
          THEN Move(t, "commit", NoneSeq)
          ELSE Move(t, "get_or_create", NoneSeq)
    /\ UNCHANGED <<files, store, resp, hasPythainlp>>

\* client.get_or_create_collection(name=collection_name)
TurnGetOrCreate(t) ==
    /\ At(t, "get_or_create")
    /\ LET name == CollectionName(files[call.target].user_id)
       IN store' = IF name \in DOMAIN store THEN store ELSE (name :> <<>>) @@ store
    /\ Move(t, "add", NoneSeq)
    /\ UNCHANGED <<files, resp, hasPythainlp>>

\* collection.add(documents, ids, metadatas); an empty batch is rejected and
\* the handler logs the failure
TurnAdd(t) ==
    /\ At(t, "add")
    /\ LET f    == files[call.target]
           name == CollectionName(f.user_id)
           recs == ChunkRecords(ExtractWithMetadata(Catalog[f.kind]), call.target, f.user_id)
       IN IF recs = <<>>
          THEN /\ store' = store
               /\ Move(t, "done", NoneSeq)
          ELSE /\ store' = [store EXCEPT ![name] = CollectionAdd(store[name], recs)]
               /\ Move(t, "commit", <<name, call.target>>)
    /\ UNCHANGED <<files, resp, hasPythainlp>>

\* `f.is_processed = True; f.vector_id = v_id; db.add(f); await db.commit()`
TurnCommit(t) ==
    /\ At(t, "commit")
    /\ files' = [files EXCEPT ![call.target] = MarkProcessed(@, call.turns[t].v_id)]
    /\ Move(t, "done", call.turns[t].v_id)
    /\ UNCHANGED <<store, resp, hasPythainlp>>

NextRace ==
    \/ RaceUpload
    \/ RaceBegin
    \/ \E t \in Turns : TurnFetch(t)
    \/ \E t \in Turns : TurnGetOrCreate(t)
    \/ \E t \in Turns : TurnAdd(t)
    \/ \E t \in Turns : TurnCommit(t)

SpecRace == Init /\ [][NextRace]_vars

----------------------------------------------------------------------------
(* Properties of the concurrent turns *)

BothDone == \A t \in Turns : At(t, "done")

\* C20: once two concurrent chat turns over a file not yet indexed have both
\* passed the auto-index loop, the file is marked processed with a vector
\* id, and the owner's collection holds for the file exactly the chunks of
\* one indexing, each chunk id once.
C20_ConcurrentIndexingConverges ==
    BothDone =>
        LET f == files[call.target]
            name == CollectionName(f.user_id)
        IN /\ f.is_processed
           /\ f.vector_id # NoneSeq
           /\ name \in DOMAIN store
           /\ ChunksIn(store, f.user_id, call.target) =
                 ChunkRecords(ExtractWithMetadata(Catalog[f.kind]), call.target, f.user_id)
           /\ Cardinality({store[name][i].id : i \in 1..Len(store[name])})
                 = Len(store[name])

----------------------------------------------------------------------------
(* Properties of the cascade of search *)

\* Every result of the call comes from stage s
AllFromStage(s) == \A i \in 1..Len(resp.docs) : resp.docs[i].stage = s

\* C21: the results of one call of search come from a single stage: all
\* from Stage 1 with final distance below 1.8; or all from Stage 2 with
\* distance 0.4, Stage 1 having accepted nothing for a non-empty query; or
\* all from Stage 3 with distance 0.6, Stages 1 and 2 having given nothing.
C21_SingleStage ==
    (resp.op = "search" /\ resp.docs # <<>>) =>
        LET name == CollectionName(call.user) IN
        \/ /\ AllFromStage(1)
           /\ \A i \in 1..Len(resp.docs) : resp.docs[i].distance < 1800
        \/ /\ AllFromStage(2)
           /\ \A i \in 1..Len(resp.docs) : resp.docs[i].distance = 400
           /\ resp.accepted1 = 0
           /\ call.query # <<>>
        \/ /\ AllFromStage(3)
           /\ \A i \in 1..Len(resp.docs) : resp.docs[i].distance = 600
           /\ resp.accepted1 = 0
           /\ call.query # <<>> =>
                 Stage2(store[name], name, call.query, call.n_results, call.file_ids) = <<>>

\* For a non-empty query Stage 1 accepted nothing, Stage 2 found no keyword
\* and Stage 3 supplied the results
C21_Witness ==
    /\ resp.op = "search"
    /\ call.query # <<>>
    /\ resp.accepted1 = 0
    /\ resp.docs # <<>>
    /\ AllFromStage(3)

----------------------------------------------------------------------------
(* Stage 1.5 of search, applied to one candidate *)

Q_owl_elk == <<"o", "w", "l", " ", "e", "l", "k">>

\* The store distances of a candidate, in thousandths, 0 for an exact match
BoostDists   == {0, 5, 10, 11, 300, 449, 450, 451, 900, 1900, 3000}
BoostQueries == {Q_owl, Q_owl_elk, Q_elk, Q_ox, Q_empty}
BoostDocs    == {T_owl, T_fox}

\* The rescoring of the candidate doc at store distance dist
BoostApply ==
    /\ call = NoCall
    /\ \E query \in BoostQueries, doc \in BoostDocs, dist \in BoostDists :
         /\ call' = [op |-> "rescore", query |-> query, doc |-> doc, dist |-> dist]
         /\ resp' = [op |-> "rescore", dist |-> Rescore(query, doc, dist)]
    /\ UNCHANGED <<files, store, hasPythainlp>>

NextBoost == BoostApply

SpecBoost == Init /\ [][NextBoost]_vars

----------------------------------------------------------------------------
(* Properties of the rescoring *)

\* The keyword overlap of the rescored candidate is positive
OverlapPositive ==
    IF hasPythainlp
    THEN {w \in Range(WordTokenize(Lower(call.query))) : Len(w) > 1}
            \cap Range(WordTokenize(Lower(call.doc))) # {}
    ELSE \E w \in Range(Split(Lower(call.query))) :
            Len(w) > 1 /\ Contains(Lower(call.doc), w)

\* C22 as claimed: with a positive keyword overlap the rescored distance is
\* not negative and not above the store distance.
C22_BoostWithinOriginal ==
    (resp.op = "rescore" /\ OverlapPositive) =>
        (0 <= resp.dist /\ resp.dist <= call.dist)

\* C22 as amended: with a positive keyword overlap the rescored distance is
\* at least 0.01 and not above the larger of the store distance and 0.01.
C22_BoostWithinFloor ==
    (resp.op = "rescore" /\ OverlapPositive) =>
        (10 <= resp.dist /\ resp.dist <= Max(call.dist, 10))

\* A candidate nearer than 0.01 with a positive keyword overlap was rescored
C22_Witness ==
    /\ resp.op = "rescore"
    /\ OverlapPositive
    /\ call.dist < 10
    /\ resp.dist = 10

----------------------------------------------------------------------------
(* The RAG block of /chat: the auto-index loop, then the searches *)

AutoKinds   == {"txt", "doc", "png"}
AutoAvail   == {"ok", "store_error"}

\* Files are uploaded while the store is reachable or not
AutoUpload ==
    /\ call = NoCall
    /\ \E u \in Users, kind \in AutoKinds, avail \in AutoAvail : UploadFile(u, kind, avail)

\* The RAG block over the fetched rows: ix is what the auto-index loop
\* leaves, file_ids_str the files handed to the searches
AutoChatOf(u, query, dm, avail, fetched, file_ids_str, ix) ==
    /\ call'  = [op |-> "chat", user |-> u, fetched |-> fetched, before |-> files,
                 avail |-> avail]
    /\ files' = ix.files
    /\ store' = ix.store
    /\ resp'  = [op |-> "chat", searched |-> file_ids_str,
                 failed |-> {x.id : x \in ix.failed},
                 results |-> FanOut(ix.store, u, query, file_ids_str, dm, avail)]
    /\ UNCHANGED hasPythainlp

AutoChatIx(u, query, dm, avail, fetched, ix) ==
    AutoChatOf(u, query, dm, avail, fetched,
               SeqFilter(fetched, [i \in Range(fetched) |-> ix.files[i].is_processed]), ix)

AutoChat ==
    /\ call = NoCall
    /\ \E u \in Users, ids \in SUBSET (1..Len(files)) \ {{}}, avail \in Avail :
         \E dm \in (IF avail = "ok" THEN PlatformMaps ELSE {FarMap}) :
            AutoChatIx(u, Q_owl, dm, avail, SortedSeq(ids),
                       AutoIndex(SortedSeq(ids), [files |-> files, store |-> store],
                                 u, avail, {}))

NextAuto == AutoUpload \/ AutoChat

SpecAutoIndex == Init /\ [][NextAuto]_vars

----------------------------------------------------------------------------
(* Properties of the RAG block *)

\* C23: in a /chat turn every referenced file that was unprocessed and
\* whose indexing did not throw is indexed and marked processed before the
\* searches, a file is searched exactly if it is marked processed by then,
\* a file whose indexing threw is the only kind left out, and the searches
\* of the turn still run and see the chunks just indexed.
C23_IndexThenSearch ==
    resp.op = "chat" =>
        /\ \A id \in Range(call.fetched) :
              /\ id \in Range(resp.searched) <=> files[id].is_processed
              /\ call.before[id].is_processed => id \in Range(resp.searched)
              /\ id \in resp.failed => id \notin Range(resp.searched)
              /\ (~call.before[id].is_processed /\ id \notin resp.failed) =>
                    /\ id \in Range(resp.searched)
                    /\ ChunksIn(store, call.user, id) =
                          ChunkRecords(ExtractWithMetadata(Catalog[files[id].kind]),
                                       id, call.user)
              /\ (call.avail = "ok" /\ id \in Range(resp.searched)
                     /\ ChunksIn(store, call.user, id) # <<>>) =>
                    \E k \in 1..Len(resp.results) : resp.results[k].metadata.file_id = id
        /\ \A k \in 1..Len(resp.results) :
              resp.results[k].metadata.file_id \in Range(resp.searched)

\* The indexing of one referenced file threw, another referenced file was
\* indexed in the same turn and its chunks were retrieved
C23_Witness ==
    /\ resp.op = "chat"
    /\ resp.failed # {}
    /\ \E id \in Range(resp.searched) :
          /\ ~call.before[id].is_processed
          /\ \E k \in 1..Len(resp.results) : resp.results[k].metadata.file_id = id

----------------------------------------------------------------------------
(* The fan-out of /chat with its searches completing in any order *)

MaxGatherFiles == 3

GatherKinds == {"txt", "pdf"}

\* asyncio.gather handing back the results in the order of completion
GatherAsCompleted(lists, order) == [k \in 1..Len(lists) |-> lists[order[k]]]

\* asyncio.gather(*search_tasks): the result lists in the order the tasks
\* were submitted, whatever the order they completed in
Gather(lists, order) == [k \in 1..Len(lists) |-> lists[k]]

\* all_results.extend(res_list) for each list, the stable sort by distance
\* and the cut to 20
MergeResults(all_search_results) ==
    Take(SortByDistance(Flatten(all_search_results)), 20)

\* Documents are uploaded to a reachable store
GatherIndex ==
    /\ call = NoCall
    /\ Len(files) < MaxGatherFiles
    /\ \E kind \in GatherKinds : UploadFileOf(FanUser, kind, "ok")

\* The searches of a turn are submitted: lists[k] is what the search of
\* file_ids_str[k] returns, order the tasks completed so far
GatherSubmit(file_ids_str, lists) ==
    /\ call' = [op |-> "gather", file_ids_str |-> file_ids_str, lists |-> lists,
                order |-> <<>>]
    /\ UNCHANGED <<files, store, resp, hasPythainlp>>

GatherStart ==
    /\ call = NoCall
    /\ \E ids \in SUBSET (1..Len(files)) \ {{}}, query \in FanQueries :
         \E dm \in FanMaps :
            GatherSubmit(SortedSeq(ids),
                         [k \in 1..Cardinality(ids) |->
                            Search(store, FanUser, query, Max(5, 20 \div Cardinality(ids)),
                                   <<SortedSeq(ids)[k]>>, dm, "none").docs])

\* One of the pending searches completes
GatherComplete ==
    /\ call.op = "gather"
    /\ \E k \in (1..Len(call.lists)) \ Range(call.order) :
         call' = [call EXCEPT !.order = Append(@, k)]
    /\ UNCHANGED <<files, store, resp, hasPythainlp>>

\* All searches have completed: gather returns and the results are merged
GatherMerge ==
    /\ call.op = "gather"
    /\ resp.op # "chat"
    /\ Len(call.order) = Len(call.lists)
    /\ resp' = [op |-> "chat",
                search_results |-> MergeResults(Gather(call.lists, call.order))]
    /\ UNCHANGED <<files, store, call, hasPythainlp>>

NextGather == GatherIndex \/ GatherStart \/ GatherComplete \/ GatherMerge

SpecGather == Init /\ [][NextGather]_vars

----------------------------------------------------------------------------
(* Properties of the merge *)

\* The results in encounter order: by file as submitted, then by position
Encountered == Flatten(call.lists)

\* The place of the p-th encountered result in the order by distance with
\* ties in encounter order
RankOf(p) ==
    1 + Cardinality({q \in 1..Len(Encountered) :
                        \/ Encountered[q].distance < Encountered[p].distance
                        \/ /\ Encountered[q].distance = Encountered[p].distance
                           /\ q < p})

\* C24: whatever the order in which the per-file searches complete, the
\* merged list of a /chat turn holds the results ordered by distance, ties
\* in encounter order (file submission order, then position in the file's
\* results), cut to 20.
C24_MergeOrderIndependent ==
    (resp.op = "chat" /\ call.op = "gather") =>
        /\ Len(resp.search_results) = Min(20, Len(Encountered))
        /\ \A p \in 1..Len(Encountered) :
              RankOf(p) <= 20 => resp.search_results[RankOf(p)] = Encountered[p]

\* The searches completed in another order than submitted, and results of
\* different files at the same distance were merged
C24_Witness ==
    /\ resp.op = "chat" /\ call.op = "gather"
    /\ \E k \in 1..Len(call.order) : call.order[k] # k
    /\ \E p, q \in 1..Len(Encountered) :
          /\ Encountered[p].distance = Encountered[q].distance
          /\ Encountered[p].metadata.file_id # Encountered[q].metadata.file_id

----------------------------------------------------------------------------
(* Properties of the fan-out: starvation *)

\* Every per-file search of the turn returned a result
AllSearchesAnswered ==
    \A k \in 1..Len(call.file_ids_str) :
        BudgetSearch(call.file_ids_str[k], Max(5, 20 \div Len(call.file_ids_str))) # <<>>

\* Every searched file has a result among those handed to the ranker
EveryFileRetained ==
    \A k \in 1..Len(call.file_ids_str) :
        \E i \in 1..Len(resp.search_results) :
            resp.search_results[i].metadata.file_id = call.file_ids_str[k]

\* C25 as claimed: in a /chat turn over any number of processed files whose
\* searches each return a result, every file keeps a result after the cut
\* to the top 20.
C25_NoFileStarved ==
    (resp.op = "chat" /\ call.op = "chat" /\ AllSearchesAnswered) => EveryFileRetained

\* C25 as amended: the same for a turn over at most 4 processed files.
C25_NoFileStarvedUpTo4 ==
    (resp.op = "chat" /\ call.op = "chat" /\ Len(call.file_ids_str) <= 4
       /\ AllSearchesAnswered) => EveryFileRetained

\* Four files were searched, each search filled its budget of 5, and all
\* 20 results were handed on
C25_Witness ==
    /\ resp.op = "chat" /\ call.op = "chat"
    /\ Len(call.file_ids_str) = 4
    /\ \A k \in 1..4 : Len(BudgetSearch(call.file_ids_str[k], 5)) = 5
    /\ Len(resp.search_results) = 20
    /\ EveryFileRetained

----------------------------------------------------------------------------
(* The relevance score of /chat, applied to two distances *)

MaxScoreStep == 80

\* Distances in thousandths: 0 to 2.0 in steps of 0.025, and the
\* neighbours of the confident-match boundary
ScoreDists == {25 * k : k \in 0..MaxScoreStep} \cup {399, 401}

\* Two results of one ranking are scored
ScoreApply ==
    /\ call = NoCall
    /\ \E d1 \in ScoreDists, d2 \in ScoreDists, broad \in BOOLEAN :
         /\ d1 <= d2
         /\ call' = [op |-> "score", d1 |-> d1, d2 |-> d2, broad |-> broad]
         /\ resp' = [op |-> "score", s1 |-> ChatScore(d1, broad),
                                      s2 |-> ChatScore(d2, broad)]
    /\ UNCHANGED <<files, store, hasPythainlp>>

NextScore == ScoreApply

SpecScore == Init /\ [][NextScore]_vars

----------------------------------------------------------------------------
(* Properties of the relevance score *)

\* C26: for a fixed query type the rounded relevance score does not grow
\* with the distance: d1 <= d2 gives score(d1) >= score(d2), also across the
\* confident-match boundary at 0.4.
C26_ScoreMonotone ==
    resp.op = "score" => resp.s1 >= resp.s2

\* A boosted match just below 0.4 and an unboosted one at 0.4 or beyond
\* were scored, the nearer one strictly higher
C26_Witness ==
    /\ resp.op = "score"
    /\ call.d1 = 399 /\ call.d2 >= 400
    /\ resp.s1 > resp.s2

----------------------------------------------------------------------------
(* Properties of the window of _split_text *)

\* C27: in default-mode splitting every window starts exactly
\* chunk_size - overlap after the window before it, also after a window
\* whose right edge was moved back to a space.
C27_FixedStride ==
    resp.op = "split_text" =>
        \A k \in 1..(Len(resp.starts) - 1) :
            resp.starts[k + 1] - resp.starts[k] = call.chunk_size - call.overlap

----------------------------------------------------------------------------
(* Properties of the stored chunks *)

\* The chunks of the units of f in emission order, unit by unit, each with
\* the page label of its unit
Emitted(f) ==
    Flatten([u \in 1..Len(ExtractWithMetadata(f)) |->
               [i \in 1..Len(SplitText(ExtractWithMetadata(f)[u].text, ChunkSize, Overlap)) |->
                  [document |-> SplitText(ExtractWithMetadata(f)[u].text, ChunkSize, Overlap)[i],
                   page     |-> PageOf(ExtractWithMetadata(f)[u])]]])

\* C28: the chunks stored for an indexed document carry the ids
\* {file_id}_chunk_0 .. {file_id}_chunk_{n-1}, the chunk with id suffix i
\* has chunk_index i, the indices follow the emission order across the
\* units, and each chunk has the page label of the unit it was split from.
C28_ChunkIdsAndIndices ==
    \A u \in Users, id \in 1..Len(files) :
        LET rs == ChunksIn(store, u, id) IN
        rs # <<>> =>
            /\ Len(rs) = Len(Emitted(Catalog[files[id].kind]))
            /\ \A k \in 1..Len(rs) :
                  /\ rs[k].id = ChunkId(id, k - 1)
                  /\ rs[k].metadata.chunk_index = k - 1
                  /\ rs[k].document = Emitted(Catalog[files[id].kind])[k].document
                  /\ rs[k].metadata.page = Emitted(Catalog[files[id].kind])[k].page

\* A document of several pages is indexed: its chunks carry different page
\* labels
C28_Witness ==
    \E u \in Users, id \in 1..Len(files) :
        /\ Len(ChunksIn(store, u, id)) >= 2
        /\ ChunksIn(store, u, id)[1].metadata.page # ChunksIn(store, u, id)[2].metadata.page

----------------------------------------------------------------------------
(* Indexing, deleting and searching documents in any order *)

FrameKinds == {"txt", "pdf"}

\* The vector ids delete_document can be handed
VectorIds == {NoneSeq} \cup {<<CollectionName(u), id>> : u \in Users, id \in FileIds}

\* One call on the store: the operation, the document it names (0: none)
\* and the store as the call found it
StoreCall(op, target, before) == [op |-> op, target |-> target, before |-> before]

\* A file row is committed
FrameRegister ==
    /\ Len(files) < MaxFiles
    /\ \E u \in Users, kind \in FrameKinds :
         /\ files' = Append(files, NewFile(u, kind))
         /\ resp'  = Response("upload", u, Len(files) + 1, "ok", None, <<>>, {})
    /\ UNCHANGED <<store, call, hasPythainlp>>

\* process_document(storage_path of file id, id, u)
FrameIndex ==
    \E u \in Users, id \in 1..Len(files), avail \in Avail :
        /\ store' = ProcessDocument(store, Catalog[files[id].kind], id, u, avail).store
        /\ call'  = StoreCall("process_document", id, store)
        /\ UNCHANGED <<files, resp, hasPythainlp>>

\* delete_document(vector_id)
FrameDelete ==
    \E vector_id \in VectorIds, avail \in Avail :
        /\ store' = DeleteDocument(store, vector_id, avail)
        /\ call'  = StoreCall("delete_document",
                              IF vector_id = NoneSeq THEN 0 ELSE vector_id[2], store)
        /\ UNCHANGED <<files, resp, hasPythainlp>>

\* search(u, query, 5, [id])
FrameSearch ==
    \E u \in Users, id \in 1..Len(files), query \in {Q_owl} :
        /\ resp' = SearchOutcome(Search(store, u, query, 5, <<id>>, FarMap, "none"), 0)
        /\ call' = StoreCall("search", 0, store)
        /\ UNCHANGED <<files, store, hasPythainlp>>

NextFrame == FrameRegister \/ FrameIndex \/ FrameDelete \/ FrameSearch

SpecFrame == Init /\ [][NextFrame]_vars

----------------------------------------------------------------------------
(* Properties of the frame of indexing and deleting *)

StoreOps == {"process_document", "delete_document", "search"}

\* The records of the collection `name` of store st
RecordsOf(st, name) == IF name \in DOMAIN st THEN Range(st[name]) ELSE {}

\* C29: a call of process_document or delete_document for document X, in
\* any order with searches and with calls for other documents, leaves the
\* chunks of every other document in every collection as they were:
\* indexing adds only records with ids X_chunk_i and file_id X, deleting
\* removes only records with file_id X, and a search changes nothing.
C29_OtherDocumentsUntouched ==
    call.op \in StoreOps =>
        /\ \A u \in Users, y \in FileIds \ {call.target} :
              ChunksIn(store, u, y) = ChunksIn(call.before, u, y)
        /\ \A name \in DOMAIN store :
              \A r \in RecordsOf(store, name) \ RecordsOf(call.before, name) :
                  /\ call.op = "process_document"
                  /\ r.metadata.file_id = call.target
                  /\ r.id = ChunkId(call.target, r.metadata.chunk_index)
        /\ \A name \in DOMAIN call.before :
              \A r \in RecordsOf(call.before, name) \ RecordsOf(store, name) :
                  /\ call.op = "delete_document"
                  /\ r.metadata.file_id = call.target

\* The chunks of a document were deleted from a collection that holds the
\* chunks of another document
C29_Witness ==
    /\ call.op = "delete_document"
    /\ \E u \in Users :
          /\ ChunksIn(call.before, u, call.target) # <<>>
          /\ ChunksIn(store, u, call.target) = <<>>
          /\ \E y \in FileIds \ {call.target} : ChunksIn(store, u, y) # <<>>

----------------------------------------------------------------------------
(* Properties of the platform: whose files a chat turn uses *)

\* C30: every chunk a chat turn retrieves and hands to the completion
\* delegate belongs to a file owned by the requesting user, also when the
\* request names file ids of another user.
C30_OnlyOwnFilesReachDelegate ==
    (resp.op \in ChatOps /\ resp.status = "ok") =>
        \A o \in resp.results :
            o.file_id \in Live(files) => files[o.file_id].user_id = resp.user

====
